---- MODULE Spec2Model ----
(***************************************************************************)
(* Model of the MercadoLibre scanner (src/main.py): the page prober        *)
(* verificar_pagina_existe, the title extractor extraer_titulo, the        *)
(* pagination walker escanear_mercadolibre and the POST /scan handler      *)
(* scan_mercadolibre.                                                      *)
(*                                                                         *)
(* Text is a sequence of one-character strings, so that strip(), split(),  *)
(* startswith() and the id regular expression are computed, not assumed.   *)
(* A URL is a sequence of tokens; the token "_OrderId" is the one that     *)
(* str.replace rewrites.  An optional element (the result of find()) is a  *)
(* sequence of length 0 (None) or 1.                                       *)
(***************************************************************************)
EXTENDS Integers, Sequences, FiniteSets, TLC

VARIABLES
    pc,                   \* control position of the request being served
    catIdx,               \* position of the for loop over URLS.items()
    pagina,               \* escanear_mercadolibre: pagina
    productos_categoria,  \* escanear_mercadolibre: productos_categoria
    celulares_lista,      \* escanear_mercadolibre: celulares_lista
    notebooks_lista,      \* escanear_mercadolibre: notebooks_lista
    stats,                \* escanear_mercadolibre: stats
    inflight,             \* requests sent and not yet answered
    trace,                \* history: every request sent and every answer
    http,                 \* what the handler gave back to its caller
    fn_in,                \* input of a function applied on its own
    fn_out                \* its result

vars == <<pc, catIdx, pagina, productos_categoria, celulares_lista,
          notebooks_lista, stats, inflight, trace, http, fn_in, fn_out>>

(***************************************************************************)
(* Bounds of the model.                                                    *)
(***************************************************************************)
MaxItems == 2           \* item containers in one page body
MaxH2 == 2              \* h2 elements in one item

(***************************************************************************)
(* Configuration.                                                          *)
(***************************************************************************)
Cats == <<"celulares", "notebooks">>

URLS(categoria) ==
    IF categoria = "celulares"
    THEN <<"https://listado.mercadolibre.cl/celulares-telefonia/celulares-smartphones/usado/celular",
           "_OrderId", "_PRICE_PublishedToday_YES_NoIndex_True">>
    ELSE <<"https://listado.mercadolibre.cl/computacion/notebooks-accesorios/notebooks/usado/notebook",
           "_OrderId", "_PRICE_PublishedToday_YES_NoIndex_True">>

PagCelulares == 3
PagNotebooks == 2

PAGINAS_CONFIG(categoria) ==
    IF categoria = "celulares" THEN PagCelulares
    ELSE IF categoria = "notebooks" THEN PagNotebooks
    ELSE 1

ItemsPorPagina == 50
StatusOK == 200
PreviewLen == 300
TitleProbeWords == 10
TitleMinLen == 10
TitleWords == 15

Origin == "https://www.mercadolibre.cl"

(***************************************************************************)
(* Text helpers: Python's str.strip, str.split, ' '.join, startswith.      *)
(***************************************************************************)
Space == {" ", "\n", "\t"}

Upper == {"A", "B", "C", "D", "E", "F", "G", "H", "I", "J", "K", "L", "M",
          "N", "O", "P", "Q", "R", "S", "T", "U", "V", "W", "X", "Y", "Z"}

Digit == {"0", "1", "2", "3", "4", "5", "6", "7", "8", "9"}

RECURSIVE LStrip(_)
LStrip(s) ==
    IF s = <<>> THEN <<>>
    ELSE IF Head(s) \in Space THEN LStrip(Tail(s)) ELSE s

RECURSIVE RStrip(_)
RStrip(s) ==
    IF s = <<>> THEN <<>>
    ELSE IF s[Len(s)] \in Space THEN RStrip(SubSeq(s, 1, Len(s) - 1)) ELSE s

Strip(s) == RStrip(LStrip(s))

Take(s, n) == SubSeq(s, 1, IF Len(s) < n THEN Len(s) ELSE n)

\* s.split(): the maximal runs of non-whitespace characters, in order
RECURSIVE SplitFrom(_, _, _)
SplitFrom(s, i, cur) ==
    IF i > Len(s)
    THEN (IF cur = <<>> THEN <<>> ELSE <<cur>>)
    ELSE IF s[i] \in Space
         THEN (IF cur = <<>> THEN <<>> ELSE <<cur>>) \o SplitFrom(s, i + 1, <<>>)
         ELSE SplitFrom(s, i + 1, Append(cur, s[i]))

Split(s) == SplitFrom(s, 1, <<>>)

RECURSIVE Join(_)
Join(ws) ==
    IF ws = <<>> THEN <<>>
    ELSE IF Len(ws) = 1 THEN ws[1]
    ELSE ws[1] \o <<" ">> \o Join(Tail(ws))

StartsWith(s, p) == Len(s) >= Len(p) /\ SubSeq(s, 1, Len(p)) = p

(***************************************************************************)
(* extraer_titulo: five rules, each tried only while title is still empty. *)
(* item.h2s are the item's h2 elements in document order, item.a the first *)
(* anchor with an href, item.divt the first div whose class matches        *)
(* 'title', item.text the item's get_text(strip=True).                     *)
(***************************************************************************)
FirstMarked(h2s) ==
    LET idx == {i \in 1..Len(h2s) : h2s[i].marked}
    IN  IF idx = {} THEN <<>>
        ELSE <<h2s[CHOOSE i \in idx : \A j \in idx : i <= j]>>

Titulo1(item) ==
    LET title_elem == FirstMarked(item.h2s)
    IN  IF title_elem # <<>> THEN Strip(title_elem[1].text) ELSE <<>>

Titulo2(item, title) ==
    IF title = <<>>
    THEN (IF item.h2s # <<>> THEN Strip(item.h2s[1].text) ELSE <<>>)
    ELSE title

Titulo3(item, title) ==
    IF title = <<>>
    THEN (IF item.a # <<>>
          THEN (IF item.a[1].title # <<>> THEN item.a[1].title
                ELSE item.a[1].aria)
          ELSE <<>>)
    ELSE title

Titulo4(item, title) ==
    IF title = <<>>
    THEN (IF item.divt # <<>> THEN Strip(item.divt[1]) ELSE <<>>)
    ELSE title

Titulo5(item, title) ==
    IF title = <<>>
    THEN LET words == Split(Strip(item.text))
         IN  IF Len(Join(Take(words, TitleProbeWords))) > TitleMinLen
             THEN Join(Take(words, TitleWords))
             ELSE <<>>
    ELSE title

extraer_titulo(item) ==
    Titulo5(item, Titulo4(item, Titulo3(item, Titulo2(item, Titulo1(item)))))

(***************************************************************************)
(* An HTTP answer as the code sees it.  err = "transport": requests.get    *)
(* raised a RequestException.  lead/first describe the start of the body   *)
(* (lead whitespace characters, then the character first, "" for none);    *)
(* prim and sec are what find_all returns for li.ui-search-layout__item    *)
(* and div.ui-search-result; rescue tells whether div.ui-search-rescue is  *)
(* there; parse = "raises": the BeautifulSoup constructor raised.          *)
(***************************************************************************)
HtmlPreview(resp) ==
    \* response.text[:300].strip()
    IF resp.lead >= PreviewLen \/ resp.first = "" THEN <<>> ELSE <<resp.first>>

SelectItemsPrimaryOnly(resp) == resp.prim

\* items = find_all('li', ...); if not items: items = find_all('div', ...)
SelectItems(resp) ==
    IF resp.prim # <<>> THEN resp.prim ELSE resp.sec

verificar_pagina_existe(resp) ==
    IF resp.err # "none" THEN <<FALSE, 0>>
    ELSE IF resp.status # StatusOK THEN <<FALSE, 0>>
    ELSE IF ~StartsWith(HtmlPreview(resp), <<"<">>) THEN <<FALSE, 0>>
    ELSE IF resp.parse = "raises" THEN <<FALSE, 0>>
    ELSE LET items == SelectItems(resp)
         IN  IF Len(items) > 0 THEN <<TRUE, Len(items)>>
             ELSE IF resp.rescue THEN <<FALSE, 0>>
             ELSE <<FALSE, 0>>

(***************************************************************************)
(* The page URL of escanear_mercadolibre.  str.replace rewrites every      *)
(* occurrence of the old token.                                            *)
(***************************************************************************)
RECURSIVE Replace(_, _, _)
Replace(url, old, new) ==
    IF url = <<>> THEN <<>>
    ELSE (IF Head(url) = old THEN new ELSE <<Head(url)>>)
         \o Replace(Tail(url), old, new)

OffsetFromZero(pag) == (pag - 1) * ItemsPorPagina

\* offset = (pagina - 1) * 50 + 1
Offset(pag) == (pag - 1) * ItemsPorPagina + 1

PageUrl(url_base, pag) ==
    IF pag = 1 THEN url_base
    ELSE Replace(url_base, "_OrderId",
                 <<"_Desde_", ToString(Offset(pag)), "_OrderId">>)

(***************************************************************************)
(* re.search(r'ML[A-Z]-?\d+', link), with the hyphen removed.              *)
(***************************************************************************)
RECURSIVE DigitsFrom(_, _)
DigitsFrom(s, i) ==
    IF i <= Len(s) /\ s[i] \in Digit
    THEN <<s[i]>> \o DigitsFrom(s, i + 1)
    ELSE <<>>

MatchAt(s, i) ==
    IF i + 3 <= Len(s) /\ s[i] = "M" /\ s[i + 1] = "L" /\ s[i + 2] \in Upper
    THEN LET withHyphen == IF s[i + 3] = "-" THEN DigitsFrom(s, i + 4) ELSE <<>>
             without    == DigitsFrom(s, i + 3)
             digits     == IF withHyphen # <<>> THEN withHyphen ELSE without
         IN  IF digits # <<>> THEN <<s[i], s[i + 1], s[i + 2]>> \o digits
             ELSE <<>>
    ELSE <<>>

ProductId(link) ==
    LET hits == {i \in 1..Len(link) : MatchAt(link, i) # <<>>}
    IN  IF hits = {} THEN <<>>
        ELSE MatchAt(link, CHOOSE i \in hits : \A j \in hits : i <= j)

(***************************************************************************)
(* The body of the for loop over the items of one page: <<>> when the item *)
(* is dropped (incomplete, or its extraction raised), else the producto.   *)
(***************************************************************************)
ExtractLink(item) ==
    IF item.a # <<>>
    THEN (IF StartsWith(item.a[1].href, <<"h", "t", "t", "p">>)
          THEN item.a[1].href
          ELSE <<Origin>> \o item.a[1].href)
    ELSE <<>>

ExtractPrice(item) ==
    IF item.price # <<>> THEN <<"$", " ">> \o Strip(item.price[1])
    ELSE <<"$", " ", "0">>

ExtractImage(item) ==
    IF item.img # <<>>
    THEN (IF item.img[1].data_src # <<>> THEN item.img[1].data_src
          ELSE item.img[1].src)
    ELSE <<>>

IncompletoSinId(title, link, product_id) ==
    title = <<>> \/ link = <<>>

\* if not title or not link or not product_id: continue
Incompleto(title, link, product_id) ==
    title = <<>> \/ link = <<>> \/ product_id = <<>>

ExtractItem(item, categoria, pag) ==
    IF item.raises THEN <<>>
    ELSE LET title      == extraer_titulo(item)
             link       == ExtractLink(item)
             product_id == IF link # <<>> THEN ProductId(link) ELSE <<>>
         IN  IF Incompleto(title, link, product_id) THEN <<>>
             ELSE << [id        |-> product_id,
                      title     |-> title,
                      price     |-> ExtractPrice(item),
                      link      |-> link,
                      image     |-> ExtractImage(item),
                      categoria |-> categoria,
                      pagina    |-> pag] >>

RECURSIVE ExtractAll(_, _, _)
ExtractAll(items, categoria, pag) ==
    IF items = <<>> THEN <<>>
    ELSE ExtractItem(Head(items), categoria, pag)
         \o ExtractAll(Tail(items), categoria, pag)

(***************************************************************************)
(* The upstream site.  The items a page body can hold are representatives  *)
(* of the cases the item loop distinguishes.                               *)
(***************************************************************************)
NoElem == <<>>

GoodItem ==
    [raises |-> FALSE,
     h2s    |-> << [marked |-> TRUE, text |-> <<" ", "M", "o", "t", "o", " ">>] >>,
     a      |-> << [href  |-> <<"/", "M", "L", "C", "-", "1", "2", "-", "m">>,
                    title |-> <<>>, aria |-> <<>>] >>,
     divt   |-> NoElem,
     text   |-> <<"M", "o", "t", "o">>,
     price  |-> << <<"9", "9">> >>,
     img    |-> << [data_src |-> <<>>, src |-> <<"m", ".", "j", "p", "g">>] >>]

OtherItem ==
    [raises |-> FALSE,
     h2s    |-> <<>>,
     a      |-> << [href  |-> <<"h", "t", "t", "p", ":", "/", "M", "L", "C", "3", "4">>,
                    title |-> <<>>, aria |-> <<"H", "P">>] >>,
     divt   |-> NoElem,
     text   |-> <<>>,
     price  |-> NoElem,
     img    |-> NoElem]

NoTitleItem ==
    [GoodItem EXCEPT !.h2s = << [marked |-> TRUE, text |-> <<" ">>] >>,
                     !.text = <<"M", "o", "t", "o">>]

NoLinkItem == [GoodItem EXCEPT !.a = NoElem]

NoIdItem ==
    [GoodItem EXCEPT !.a = << [href |-> <<"/", "p", "/", "M", "L", "-", "1">>,
                               title |-> <<>>, aria |-> <<>>] >>]

RaisingItem == [GoodItem EXCEPT !.raises = TRUE]

ItemUniverse ==
    {GoodItem, NoTitleItem, NoLinkItem, NoIdItem, RaisingItem}

SeqsUpTo(S, n) == UNION {[1..k -> S] : k \in 0..n}

Bodies == SeqsUpTo(ItemUniverse, MaxItems)

Resp(err, status, lead, first, prim, sec, rescue, parse) ==
    [err |-> err, status |-> status, lead |-> lead, first |-> first,
     prim |-> prim, sec |-> sec, rescue |-> rescue, parse |-> parse]

TransportError == Resp("transport", 0, 0, "", <<>>, <<>>, FALSE, "ok")

Page(status, prim, sec) == Resp("none", status, 0, "<", prim, sec, FALSE, "ok")

\* what the probe of a page can be answered with during a scan
ScanProbeResponses ==
    { TransportError,
      Page(404, <<>>, <<>>),
      Page(204, <<GoodItem>>, <<>>),
      Resp("none", 200, 0, "{", <<>>, <<>>, FALSE, "ok"),
      Resp("none", 200, 0, "<", <<GoodItem>>, <<>>, FALSE, "raises"),
      Resp("none", 200, 0, "<", <<>>, <<>>, TRUE, "ok"),
      Page(200, <<>>, <<>>),
      Page(200, <<GoodItem>>, <<>>),
      Page(200, <<>>, <<GoodItem, OtherItem>>) }

\* what the full fetch of a page can be answered with during a scan
ScanFetchResponses ==
    { TransportError,
      Page(404, <<GoodItem>>, <<>>),
      Page(204, <<GoodItem>>, <<>>),
      Resp("none", 200, 0, "<", <<GoodItem>>, <<>>, FALSE, "raises") }
    \cup {Page(200, b, <<>>) : b \in Bodies}
    \cup {Page(200, <<>>, <<OtherItem>>), Page(200, <<GoodItem>>, <<OtherItem>>)}

(***************************************************************************)
(* State of one POST /scan request.                                        *)
(***************************************************************************)
NoAnswer ==
    [code |-> 0, success |-> FALSE, total_productos |-> 0,
     celulares |-> <<>>, notebooks |-> <<>>]

Categoria == Cats[catIdx]

Url == PageUrl(URLS(Categoria), pagina)

Event(ev, res) ==
    [ev |-> ev, cat |-> Categoria, pag |-> pagina, url |-> Url, res |-> res]

Request(kind) == [kind |-> kind, cat |-> Categoria, pag |-> pagina]

Init ==
    /\ pc = "for"
    /\ catIdx = 0
    /\ pagina = 1
    /\ productos_categoria = <<>>
    /\ celulares_lista = <<>>
    /\ notebooks_lista = <<>>
    /\ stats = [celulares_total |-> 0, notebooks_total |-> 0]
    /\ inflight = {}
    /\ trace = <<>>
    /\ http = NoAnswer
    /\ fn_in = TransportError
    /\ fn_out = <<FALSE, 0>>

\* for categoria, url_base in URLS.items(): the next category
ForNext ==
    /\ pc = "for"
    /\ catIdx < Len(Cats)
    /\ catIdx' = catIdx + 1
    /\ productos_categoria' = <<>>
    /\ pagina' = 1
    /\ pc' = "while"
    /\ UNCHANGED <<celulares_lista, notebooks_lista, stats, inflight, trace,
                   http, fn_in, fn_out>>

\* the code after the while loop: the category's list is stored
EndCategory(productos) ==
    /\ celulares_lista' =
         IF Categoria = "celulares" THEN productos ELSE celulares_lista
    /\ notebooks_lista' =
         IF Categoria = "notebooks" THEN productos ELSE notebooks_lista
    /\ stats' =
         IF Categoria = "celulares"
         THEN [stats EXCEPT !.celulares_total = Len(productos)]
         ELSE IF Categoria = "notebooks"
         THEN [stats EXCEPT !.notebooks_total = Len(productos)]
         ELSE stats
    /\ pc' = "for"

WhileCondOffByOne == pagina <= PAGINAS_CONFIG(Categoria) + 1

\* while pagina <= num_paginas_max
WhileCond == pagina <= PAGINAS_CONFIG(Categoria)

\* the while condition holds: the probe request goes out
ProbeSend ==
    /\ pc = "while"
    /\ WhileCond
    /\ inflight' = inflight \cup {Request("probe")}
    /\ trace' = Append(trace, Event("probe_send", "-"))
    /\ pc' = "probe"
    /\ UNCHANGED <<catIdx, pagina, productos_categoria, celulares_lista,
                   notebooks_lista, stats, http, fn_in, fn_out>>

\* the while condition fails
WhileExit ==
    /\ pc = "while"
    /\ ~WhileCond
    /\ EndCategory(productos_categoria)
    /\ UNCHANGED <<catIdx, pagina, productos_categoria, inflight, trace,
                   http, fn_in, fn_out>>

ProbeClass(resp, existe) ==
    IF existe THEN "exists"
    ELSE IF resp.err = "transport" THEN "transport" ELSE "absent"

\* the page exists: on to the try block
OnExiste ==
    /\ pc' = "try"
    /\ UNCHANGED <<pagina, celulares_lista, notebooks_lista, stats>>

OnNoExisteSkipsAhead ==
    /\ pagina' = pagina + 1
    /\ pc' = "while"
    /\ UNCHANGED <<celulares_lista, notebooks_lista, stats>>

OnNoExisteFetchesAnyway ==
    /\ pc' = "try"
    /\ UNCHANGED <<pagina, celulares_lista, notebooks_lista, stats>>

\* if not existe: break
OnNoExiste ==
    /\ EndCategory(productos_categoria)
    /\ UNCHANGED pagina

\* existe, num_items = verificar_pagina_existe(url)
ProbeRecv ==
    /\ pc = "probe"
    /\ \E resp \in ScanProbeResponses :
         LET existe == verificar_pagina_existe(resp)[1]
         IN  /\ inflight' = inflight \ {Request("probe")}
             /\ trace' = Append(trace, Event("probe_recv", ProbeClass(resp, existe)))
             /\ IF existe THEN OnExiste ELSE OnNoExiste
    /\ UNCHANGED <<catIdx, productos_categoria, http, fn_in, fn_out>>

\* response = requests.get(url, headers=HEADERS, timeout=15): the request
FetchSend ==
    /\ pc = "try"
    /\ inflight' = inflight \cup {Request("fetch")}
    /\ trace' = Append(trace, Event("fetch_send", "-"))
    /\ pc' = "fetch"
    /\ UNCHANGED <<catIdx, pagina, productos_categoria, celulares_lista,
                   notebooks_lista, stats, http, fn_in, fn_out>>

FetchClass(resp) ==
    IF resp.err = "transport" THEN "transport"
    ELSE IF resp.status # StatusOK THEN "status"
    ELSE IF resp.parse = "raises" THEN "parse"
    ELSE "ok"

NextPaginaSkips(p) == p + 2

\* pagina += 1
NextPagina(p) == p + 1

\* except requests.RequestException: pagina += 1; continue
OnRequestException ==
    /\ pagina' = NextPagina(pagina)
    /\ pc' = "while"
    /\ UNCHANGED <<productos_categoria, celulares_lista, notebooks_lista,
                   stats, http>>

OnStatusErrorBreaks ==
    /\ EndCategory(productos_categoria)
    /\ UNCHANGED <<pagina, productos_categoria, http>>

\* if response.status_code != 200: pagina += 1; continue
OnStatusError ==
    /\ pagina' = NextPagina(pagina)
    /\ pc' = "while"
    /\ UNCHANGED <<productos_categoria, celulares_lista, notebooks_lista,
                   stats, http>>

\* an exception that is no RequestException leaves the try block and
\* escanear_mercadolibre; scan_mercadolibre turns it into HTTPException(500)
OnOtherException ==
    /\ pc' = "failed"
    /\ http' = [NoAnswer EXCEPT !.code = 500]
    /\ UNCHANGED <<pagina, productos_categoria, celulares_lista,
                   notebooks_lista, stats>>

\* the markup was parsed: the item loop, then pagina += 1
OnParsed(resp) ==
    /\ productos_categoria' =
         productos_categoria \o ExtractAll(SelectItems(resp), Categoria, pagina)
    /\ pagina' = NextPagina(pagina)
    /\ pc' = "while"
    /\ UNCHANGED <<celulares_lista, notebooks_lista, stats, http>>

\* the try block of the while loop, from the answer on
FetchRecv ==
    /\ pc = "fetch"
    /\ \E resp \in ScanFetchResponses :
         /\ inflight' = inflight \ {Request("fetch")}
         /\ trace' = Append(trace, Event("fetch_recv", FetchClass(resp)))
         /\ IF resp.err = "transport" THEN OnRequestException
            ELSE IF resp.status # StatusOK THEN OnStatusError
            ELSE IF resp.parse = "raises" THEN OnOtherException
            ELSE OnParsed(resp)
    /\ UNCHANGED <<catIdx, fn_in, fn_out>>

ReturnFailsWhenEmpty ==
    /\ pc = "for"
    /\ catIdx = Len(Cats)
    /\ http' = IF Len(celulares_lista) + Len(notebooks_lista) = 0
               THEN [NoAnswer EXCEPT !.code = 500]
               ELSE [code            |-> 200,
                     success         |-> TRUE,
                     total_productos |-> Len(celulares_lista) + Len(notebooks_lista),
                     celulares       |-> celulares_lista,
                     notebooks       |-> notebooks_lista]
    /\ pc' = IF Len(celulares_lista) + Len(notebooks_lista) = 0
             THEN "failed" ELSE "returned"
    /\ UNCHANGED <<catIdx, pagina, productos_categoria, celulares_lista,
                   notebooks_lista, stats, inflight, trace, fn_in, fn_out>>

\* return celulares_lista, notebooks_lista, stats; return ScanResponse(...)
Return ==
    /\ pc = "for"
    /\ catIdx = Len(Cats)
    /\ http' = [code            |-> 200,
                success         |-> TRUE,
                total_productos |-> Len(celulares_lista) + Len(notebooks_lista),
                celulares       |-> celulares_lista,
                notebooks       |-> notebooks_lista]
    /\ pc' = "returned"
    /\ UNCHANGED <<catIdx, pagina, productos_categoria, celulares_lista,
                   notebooks_lista, stats, inflight, trace, fn_in, fn_out>>

(***************************************************************************)
(* The item loop of one page on its own: a parsed page body goes in, the   *)
(* records appended for it come out.                                       *)
(***************************************************************************)
ItemInputs ==
    {Page(200, b, <<>>) : b \in SeqsUpTo(ItemUniverse \cup {OtherItem}, MaxItems)}

ItemsInit ==
    /\ pc = "items"
    /\ fn_in \in ItemInputs
    /\ fn_out = <<>>
    /\ catIdx = 1
    /\ pagina = 1
    /\ productos_categoria = <<>>
    /\ celulares_lista = <<>>
    /\ notebooks_lista = <<>>
    /\ stats = [celulares_total |-> 0, notebooks_total |-> 0]
    /\ inflight = {}
    /\ trace = <<>>
    /\ http = NoAnswer

ItemsApply ==
    /\ pc = "items"
    /\ fn_out' = ExtractAll(SelectItems(fn_in), Categoria, pagina)
    /\ pc' = "items_done"
    /\ UNCHANGED <<catIdx, pagina, productos_categoria, celulares_lista,
                   notebooks_lista, stats, inflight, trace, http, fn_in>>

(***************************************************************************)
(* verificar_pagina_existe on its own: one answer in, (existe, n) out.     *)
(***************************************************************************)
Placeholders(n) == [i \in 1..n |-> GoodItem]

ProbeInputs ==
    {TransportError}
    \cup { Resp("none", st, ld, ch, Placeholders(np), Placeholders(ns), rs, "ok") :
             st \in {200, 204, 404, 500},
             ld \in {0, 1, PreviewLen - 1, PreviewLen},
             ch \in {"<", "{", ""},
             np \in 0..MaxItems, ns \in 0..MaxItems,
             rs \in BOOLEAN }
    \cup { Resp("none", st, ld, ch, <<>>, <<>>, FALSE, "raises") :
             st \in {200, 204, 404, 500},
             ld \in {0, 1, PreviewLen - 1, PreviewLen},
             ch \in {"<", "{", ""} }

ProbeInit ==
    /\ pc = "probe_fn"
    /\ fn_in \in ProbeInputs
    /\ fn_out = <<>>
    /\ catIdx = 1
    /\ pagina = 1
    /\ productos_categoria = <<>>
    /\ celulares_lista = <<>>
    /\ notebooks_lista = <<>>
    /\ stats = [celulares_total |-> 0, notebooks_total |-> 0]
    /\ inflight = {}
    /\ trace = <<>>
    /\ http = NoAnswer

ProbeApply ==
    /\ pc = "probe_fn"
    /\ fn_out' = verificar_pagina_existe(fn_in)
    /\ pc' = "probe_done"
    /\ UNCHANGED <<catIdx, pagina, productos_categoria, celulares_lista,
                   notebooks_lista, stats, inflight, trace, http, fn_in>>

(***************************************************************************)
(* extraer_titulo on its own: one item in, its title out.  The items are   *)
(* every combination of up to MaxH2 headings (marked or not, blank or      *)
(* not), an anchor with or without title and aria-label (blank or not), a  *)
(* 'title' div (blank or not) and an item text (empty, short, or sixteen   *)
(* words).                                                                 *)
(***************************************************************************)
Blank == <<" ">>

LongText ==
    <<"a", " ", "b", " ", " ", "c", "\n", "d", " ", "e", " ", "f", " ", "g",
      " ", "h", " ", "i", " ", "j", " ", "k", " ", "l", " ", "m", " ", "n",
      " ", "o", " ", "p">>

TitleH2s ==
    SeqsUpTo([marked : BOOLEAN,
              text   : {Blank, <<" ", "h", " ">>, <<"k">>}], MaxH2)

TitleAnchors ==
    {NoElem}
    \cup { << [href |-> <<"/", "x">>, title |-> t, aria |-> l] >> :
             t \in {<<>>, Blank, <<"t">>}, l \in {<<>>, Blank, <<"l">>} }

TitleInputs ==
    { [raises |-> FALSE, h2s |-> hs, a |-> an, divt |-> dv, text |-> tx,
       price |-> NoElem, img |-> NoElem] :
        hs \in TitleH2s, an \in TitleAnchors,
        dv \in {NoElem, <<Blank>>, << <<" ", "d">> >>},
        tx \in {<<>>, <<"M", "o", "t", "o">>, LongText} }

TitleInit ==
    /\ pc = "title"
    /\ fn_in \in TitleInputs
    /\ fn_out = <<>>
    /\ catIdx = 1
    /\ pagina = 1
    /\ productos_categoria = <<>>
    /\ celulares_lista = <<>>
    /\ notebooks_lista = <<>>
    /\ stats = [celulares_total |-> 0, notebooks_total |-> 0]
    /\ inflight = {}
    /\ trace = <<>>
    /\ http = NoAnswer

TitleApply ==
    /\ pc = "title"
    /\ fn_out' = extraer_titulo(fn_in)
    /\ pc' = "title_done"
    /\ UNCHANGED <<catIdx, pagina, productos_categoria, celulares_lista,
                   notebooks_lista, stats, inflight, trace, http, fn_in>>

Next ==
    \/ ForNext
    \/ ProbeSend
    \/ WhileExit
    \/ ProbeRecv
    \/ FetchSend
    \/ FetchRecv
    \/ Return

Spec == Init /\ [][Next]_vars

\* one thread of control, every request bounded by its timeout: the
\* handler keeps taking steps until it has answered
FairSpec == Spec /\ WF_vars(Next)

\* the scan, and the item loop applied to every page body
NextItems ==
    \/ Next
    \/ ItemsApply

SpecItems == (Init \/ ItemsInit) /\ [][NextItems]_vars

NextProbe == ProbeApply

SpecProbe == ProbeInit /\ [][NextProbe]_vars

NextTitle == TitleApply

SpecTitle == TitleInit /\ [][NextTitle]_vars

(***************************************************************************)
(* Reading the history.                                                    *)
(***************************************************************************)
Idx == DOMAIN trace

IsSend(e) == e.ev \in {"probe_send", "fetch_send"}

SamePage(e, f) == e.cat = f.cat /\ e.pag = f.pag

Count(ev, cat) ==
    Cardinality({i \in Idx : trace[i].ev = ev /\ trace[i].cat = cat})

ProbeResults(cat) ==
    LET IsAnswer(e) == e.ev = "probe_recv" /\ e.cat = cat
        answers == SelectSeq(trace, IsAnswer)
    IN  [i \in DOMAIN answers |-> answers[i].res]

Records(list) == {list[i] : i \in DOMAIN list}

AllRecords ==
    Records(productos_categoria) \cup Records(celulares_lista)
    \cup Records(notebooks_lista) \cup Records(http.celulares)
    \cup Records(http.notebooks)

Ended == pc \in {"returned", "failed"}

(***************************************************************************)
(* C1: once the probe of page k of a category has answered exists=false,   *)
(* no probe and no full fetch is sent for page k or any later page of that *)
(* category for the rest of the scan.                                      *)
(***************************************************************************)
C1_NoRequestPastMissingPage ==
    \A i \in Idx :
        (trace[i].ev = "probe_recv" /\ trace[i].res # "exists")
        => \A j \in Idx :
               (j > i /\ IsSend(trace[j]) /\ trace[j].cat = trace[i].cat)
               => trace[j].pag < trace[i].pag

\* page 2 of celulares was missing, and the scan went on to its end
C1_Witness ==
    /\ pc = "returned"
    /\ ProbeResults("celulares") = <<"exists", "absent">>
    /\ Count("probe_send", "notebooks") = 2

(***************************************************************************)
(* C2: a full fetch is sent for exactly the pages whose probe answered     *)
(* exists=true, once each and right after that answer; with probe answers  *)
(* [exists, exists, not-exists] for pages 1..3 of celulares the walk sends *)
(* exactly 3 probes and 2 full fetches and every record of the category    *)
(* has page number 1 or 2.                                                 *)
(***************************************************************************)
C2_FetchExactlyExistingPages ==
    /\ \A j \in Idx :
          trace[j].ev = "fetch_send"
          => /\ j > 1
             /\ trace[j - 1].ev = "probe_recv"
             /\ trace[j - 1].res = "exists"
             /\ SamePage(trace[j - 1], trace[j])
    /\ \A i \in Idx :
          (trace[i].ev = "probe_recv" /\ trace[i].res = "exists")
          => IF i = Len(trace) THEN pc = "try"
             ELSE trace[i + 1].ev = "fetch_send" /\ SamePage(trace[i], trace[i + 1])
    /\ \A i, j \in Idx :
          (trace[i].ev = "fetch_send" /\ trace[j].ev = "fetch_send"
           /\ SamePage(trace[i], trace[j])) => i = j
    /\ ( /\ Len(ProbeResults("celulares")) = 3
         /\ ProbeResults("celulares")[1] = "exists"
         /\ ProbeResults("celulares")[2] = "exists"
         /\ ProbeResults("celulares")[3] # "exists" )
       => /\ Count("probe_send", "celulares") = 3
          /\ Count("fetch_send", "celulares") = 2
          /\ \A r \in Records(celulares_lista) : r.pagina \in {1, 2}

\* the scenario of the claim, with records found on both pages
C2_Witness ==
    /\ pc = "returned"
    /\ ProbeResults("celulares") = <<"exists", "exists", "absent">>
    /\ {r.pagina : r \in Records(celulares_lista)} = {1, 2}

(***************************************************************************)
(* C3: when the full fetch of a page that exists answers with a failed     *)
(* status, no record comes from that page, the records accumulated so far  *)
(* are kept, and the walk goes on: the next request is the probe of the    *)
(* following page whenever that page is within the cap.                    *)
(***************************************************************************)
FailedStatus(e) == e.ev = "fetch_recv" /\ e.res = "status"

C3_State ==
    \A i \in Idx :
        FailedStatus(trace[i])
        => /\ \A r \in AllRecords : ~(r.categoria = trace[i].cat /\ r.pagina = trace[i].pag)
           /\ trace[i].pag < PAGINAS_CONFIG(trace[i].cat)
              => IF i = Len(trace)
                 THEN pc = "while" /\ Categoria = trace[i].cat
                      /\ pagina = trace[i].pag + 1
                 ELSE /\ trace[i + 1].ev = "probe_send"
                      /\ trace[i + 1].cat = trace[i].cat
                      /\ trace[i + 1].pag = trace[i].pag + 1

C3_Step ==
    (Len(trace') = Len(trace) + 1 /\ FailedStatus(trace'[Len(trace')]))
    => /\ productos_categoria' = productos_categoria
       /\ pc' = "while"
       /\ celulares_lista' = celulares_lista
       /\ notebooks_lista' = notebooks_lista

C3_FailedStatusSkipsOnlyThePage == [](C3_State) /\ [][C3_Step]_vars

\* page 1 gave a record, page 2 answered with a failed status, page 3 was
\* probed and fetched, and the record of page 1 is in the result
C3_Witness ==
    /\ pc = "returned"
    /\ \E i \in Idx : FailedStatus(trace[i]) /\ trace[i].cat = "celulares"
                      /\ trace[i].pag = 2
    /\ Count("fetch_send", "celulares") = 3
    /\ {r.pagina : r \in Records(http.celulares)} = {1, 3}

(***************************************************************************)
(* C4: every record of the lists has a non-empty title, link and id; an    *)
(* item that lacks one of them (or whose extraction raises) is dropped,    *)
(* and the items after it on the page are still processed: the page gives  *)
(* one record for each complete item, in order.                            *)
(***************************************************************************)
NonEmptyFields(r) == r.title # <<>> /\ r.link # <<>> /\ r.id # <<>>

CompleteItems == {GoodItem, OtherItem}

RECURSIVE ExpectedIds(_)
ExpectedIds(items) ==
    IF items = <<>> THEN <<>>
    ELSE (IF Head(items) = GoodItem THEN << <<"M", "L", "C", "1", "2">> >>
          ELSE IF Head(items) = OtherItem THEN << <<"M", "L", "C", "3", "4">> >>
          ELSE <<>>)
         \o ExpectedIds(Tail(items))

C4_RecordsAreComplete ==
    /\ \A r \in AllRecords : NonEmptyFields(r)
    /\ pc = "items_done"
       => /\ \A r \in Records(fn_out) : NonEmptyFields(r)
          /\ [i \in DOMAIN fn_out |-> fn_out[i].id] = ExpectedIds(fn_in.prim)

\* an item without id is dropped and the complete item after it is kept
C4_Witness ==
    /\ pc = "items_done"
    /\ fn_in.prim = <<NoIdItem, GoodItem>>
    /\ Len(fn_out) = 1
    /\ fn_out[1].pagina = 1

(***************************************************************************)
(* C5: within the output of one scan no two records carry the same id.     *)
(***************************************************************************)
C5_IdsUniqueInScan ==
    LET out == celulares_lista \o notebooks_lista
    IN  \A i, j \in DOMAIN out : out[i].id = out[j].id => i = j

(***************************************************************************)
(* C6: no transport failure, parse failure or item failure aborts the      *)
(* scan: a scan that has ended has answered with success after walking     *)
(* every configured category.                                              *)
(***************************************************************************)
C6_FailuresNeverAbortScan ==
    Ended => /\ http.code = 200
             /\ http.success
             /\ \A k \in DOMAIN Cats : Count("probe_send", Cats[k]) >= 1

(***************************************************************************)
(* C7: when every request of the scan fails in transport, the caller gets  *)
(* the HTTP 500 failure.                                                   *)
(***************************************************************************)
AllTransport ==
    /\ trace # <<>>
    /\ \A i \in Idx : ~IsSend(trace[i]) => trace[i].res = "transport"

C7_UnreachableIsFailedScan ==
    (Ended /\ AllTransport) => http.code = 500

(***************************************************************************)
(* C7, as the code has it: when every request of the scan fails in         *)
(* transport, the scan ends as a success with both lists empty, after one  *)
(* probe per category and no full fetch.                                   *)
(***************************************************************************)
C7_UnreachableIsEmptySuccess ==
    (Ended /\ AllTransport)
    => /\ pc = "returned"
       /\ http.code = 200
       /\ http.success
       /\ http.celulares = <<>>
       /\ http.notebooks = <<>>
       /\ http.total_productos = 0
       /\ \A k \in DOMAIN Cats : ProbeResults(Cats[k]) = <<"transport">>
       /\ \A i \in Idx : trace[i].ev # "fetch_send"

C7_Witness ==
    /\ Ended
    /\ AllTransport
    /\ Len(trace) = 4

(***************************************************************************)
(* C8: verificar_pagina_existe answers (false, 0) on a transport failure,  *)
(* on a status outside 200..299 and on a body that does not begin with     *)
(* '<', and (count > 0, count) on every other answer, count being the      *)
(* number of primary items if not zero and else of secondary items.        *)
(***************************************************************************)
ItemCount(resp) ==
    IF Len(resp.prim) # 0 THEN Len(resp.prim) ELSE Len(resp.sec)

C8_ProbeResultAny2xx ==
    pc = "probe_done"
    => fn_out =
         IF \/ fn_in.err = "transport"
            \/ fn_in.status \notin 200..299
            \/ ~(fn_in.lead = 0 /\ fn_in.first = "<")
         THEN <<FALSE, 0>>
         ELSE <<ItemCount(fn_in) > 0, ItemCount(fn_in)>>

(***************************************************************************)
(* C8, as the code has it: (false, 0) on a transport failure, on a status  *)
(* other than 200, on a body whose first 300 characters stripped of        *)
(* whitespace do not begin with '<', and when the parser raises;           *)
(* (count > 0, count) on every other answer, with or without the           *)
(* 'no results' marker.                                                    *)
(***************************************************************************)
C8_ProbeResultStatus200 ==
    pc = "probe_done"
    => fn_out =
         IF \/ fn_in.err = "transport"
            \/ fn_in.status # 200
            \/ ~(fn_in.lead < 300 /\ fn_in.first = "<")
            \/ fn_in.parse = "raises"
         THEN <<FALSE, 0>>
         ELSE <<ItemCount(fn_in) > 0, ItemCount(fn_in)>>

\* no primary item, two secondary items and the 'no results' marker
C8_Witness ==
    /\ pc = "probe_done"
    /\ fn_in.status = 200
    /\ fn_in.lead = 1
    /\ fn_in.prim = <<>>
    /\ Len(fn_in.sec) = 2
    /\ fn_in.rescue
    /\ fn_out = <<TRUE, 2>>

(***************************************************************************)
(* C9: the probe and the full fetch of page n of a category use the same   *)
(* URL: the base template for n = 1, and for n > 1 the base template with  *)
(* one offset token of value (n-1)*50+1 (51 for page 2, 101 for page 3);   *)
(* distinct pages of a category have distinct URLs.                        *)
(***************************************************************************)
OffsetText(n) == IF n = 2 THEN "51" ELSE IF n = 3 THEN "101" ELSE "?"

ExpectedUrl(cat, n) ==
    IF n = 1 THEN URLS(cat)
    ELSE <<URLS(cat)[1], "_Desde_", OffsetText(n), "_OrderId", URLS(cat)[3]>>

C9_PageUrls ==
    /\ \A i \in Idx :
          IsSend(trace[i])
          => /\ trace[i].pag \in 1..PAGINAS_CONFIG(trace[i].cat)
             /\ trace[i].url = ExpectedUrl(trace[i].cat, trace[i].pag)
    /\ \A i, j \in Idx :
          (IsSend(trace[i]) /\ IsSend(trace[j]) /\ trace[i].cat = trace[j].cat)
          => (trace[i].url = trace[j].url <=> trace[i].pag = trace[j].pag)

\* page 3 of celulares and page 2 of notebooks were probed and fetched
C9_Witness ==
    /\ \E i \in Idx : trace[i].ev = "fetch_send" /\ trace[i].cat = "celulares"
                      /\ trace[i].pag = 3
    /\ \E i \in Idx : trace[i].ev = "fetch_send" /\ trace[i].cat = "notebooks"
                      /\ trace[i].pag = 2

(***************************************************************************)
(* C10: requests go out one at a time and in order: at most one request is *)
(* outstanding, every request is answered before the next is sent, no      *)
(* request of celulares follows a request of notebooks, the pages probed   *)
(* in a category are 1, 2, 3, ... without gap, and the full fetch of a     *)
(* page comes after the probe of that page.                                *)
(***************************************************************************)
CatPos(cat) == CHOOSE k \in DOMAIN Cats : Cats[k] = cat

ProbedPages(cat) ==
    LET IsProbe(e) == e.ev = "probe_send" /\ e.cat = cat
        probes == SelectSeq(trace, IsProbe)
    IN  [i \in DOMAIN probes |-> probes[i].pag]

C10_SequentialInOrder ==
    /\ Cardinality(inflight) <= 1
    /\ \A i \in Idx :
          IsSend(trace[i])
          => IF i = Len(trace)
             THEN inflight # {}
             ELSE ~IsSend(trace[i + 1]) /\ SamePage(trace[i], trace[i + 1])
    /\ (trace # <<>> /\ ~IsSend(trace[Len(trace)])) => inflight = {}
    /\ \A i, j \in Idx :
          i < j => CatPos(trace[i].cat) <= CatPos(trace[j].cat)
    /\ \A k \in DOMAIN Cats :
          ProbedPages(Cats[k]) = [n \in 1..Len(ProbedPages(Cats[k])) |-> n]
    /\ \A j \in Idx :
          trace[j].ev = "fetch_send"
          => \E i \in Idx : i < j /\ trace[i].ev = "probe_send"
                            /\ SamePage(trace[i], trace[j])

\* both categories walked to their caps
C10_Witness ==
    /\ pc = "returned"
    /\ ProbedPages("celulares") = <<1, 2, 3>>
    /\ ProbedPages("notebooks") = <<1, 2>>
    /\ Count("fetch_send", "notebooks") = 2

(***************************************************************************)
(* C11: extraer_titulo returns the result of the first rule, in the order  *)
(* 1..5, that yields a non-empty trimmed string: a later rule decides only *)
(* if every earlier rule yielded nothing or only whitespace, and the       *)
(* result is empty exactly when no rule yields a non-empty trimmed string. *)
(***************************************************************************)
RuleYield(k, item) ==
    IF k = 1 THEN
        (IF \E i \in DOMAIN item.h2s : item.h2s[i].marked
         THEN item.h2s[CHOOSE i \in DOMAIN item.h2s :
                          /\ item.h2s[i].marked
                          /\ \A j \in 1..(i - 1) : ~item.h2s[j].marked].text
         ELSE <<>>)
    ELSE IF k = 2 THEN
        (IF item.h2s # <<>> THEN item.h2s[1].text ELSE <<>>)
    ELSE IF k = 3 THEN
        (IF item.a = <<>> THEN <<>>
         ELSE IF item.a[1].title # <<>> THEN item.a[1].title
         ELSE item.a[1].aria)
    ELSE IF k = 4 THEN
        (IF item.divt # <<>> THEN item.divt[1] ELSE <<>>)
    ELSE
        (IF Len(Join(Take(Split(item.text), 10))) > 10
         THEN Join(Take(Split(item.text), 15))
         ELSE <<>>)

C11_FirstNonBlankRuleWins ==
    pc = "title_done"
    => LET good == {k \in 1..5 : Strip(RuleYield(k, fn_in)) # <<>>}
       IN  IF good = {} THEN fn_out = <<>>
           ELSE /\ fn_out # <<>>
                /\ Strip(fn_out) =
                     Strip(RuleYield(CHOOSE k \in good : \A m \in good : k <= m,
                                     fn_in))

(***************************************************************************)
(* C12: every scan ends, and nothing is retried: each page of a category   *)
(* is probed at most once and fetched at most once, a category gets at     *)
(* most maxPages probes and maxPages full fetches (3 for celulares, 2 for  *)
(* notebooks), and the page counter never exceeds maxPages + 1.            *)
(***************************************************************************)
Cap(cat) == IF cat = "celulares" THEN 3 ELSE 2

C12_State ==
    /\ \A i, j \in Idx :
          (IsSend(trace[i]) /\ trace[i].ev = trace[j].ev
           /\ SamePage(trace[i], trace[j])) => i = j
    /\ \A k \in DOMAIN Cats :
          /\ Count("probe_send", Cats[k]) <= Cap(Cats[k])
          /\ Count("fetch_send", Cats[k]) <= Cap(Cats[k])
    /\ catIdx >= 1 => pagina <= Cap(Categoria) + 1

C12_NoRetryAndTerminates == [](C12_State) /\ <>Ended

\* a scan that met a failed status, a transport error and an empty page,
\* and used every probe and every fetch celulares may have
C12_Witness ==
    /\ pc = "returned"
    /\ Count("probe_send", "celulares") = 3
    /\ Count("fetch_send", "celulares") = 3
    /\ \E i \in Idx : trace[i].ev = "fetch_recv" /\ trace[i].res = "transport"
    /\ \E i \in Idx : trace[i].ev = "fetch_recv" /\ trace[i].res = "status"
    /\ ProbeResults("notebooks") = <<"exists", "absent">>

====
